---- MODULE Spec2Model ----
(***************************************************************************)
(* Model of src/mtg_server.py: the deck / hand / sideboard session of the  *)
(* "mtg-manager" server, its decklist parser and its tools.                *)
(*                                                                         *)
(* A Python str is a sequence of one-character strings, so that lower(),   *)
(* strip(), split() and replace() are computed character by character.    *)
(* A card is the dict {"name": ..., "id": ...} of parse_deck_list, with    *)
(* both fields such character sequences.                                   *)
(***************************************************************************)
EXTENDS Integers, Sequences, FiniteSets, TLC

VARIABLES state, parsed_cards, last, tasks, running

vars == <<state, parsed_cards, last, tasks, running>>

\* The keys of the dicts and records of the model, each with what holds it.
\* TLC keeps the fields of a record in the order in which their names first
\* occur in the module; they occur here in the order in which the records
\* below are written, so that a record is in its final order from the moment
\* it is built.
Keys ==
    [name |-> "card", id |-> "card",
     main_deck |-> "parse_deck_list", deck |-> "state", sideboard |-> "state",
     hand |-> "state", current_section |-> "parse_deck_list",
     deck_list |-> "upload", parsed |-> "upload",
     state |-> "outcome", op |-> "last", args |-> "last", pre |-> "last",
     result |-> "outcome"]

----------------------------------------------------------------------------
(* Bounds of the model.                                                    *)

\* Largest number of cards held in the three zones together; a swap that
\* would exceed it is not taken.
MaxCards == 4
\* Largest count passed to draw_card and largest new_hand_size of mulligan.
MaxCount == 3
\* Largest number of lines of a decklist text of the parser specification.
MaxLines == 3
\* Largest number of tool calls in flight together.
MaxTasks == 2

----------------------------------------------------------------------------
(* Python str operations.                                                  *)

UpperCase == <<"A","B","C","D","E","F","G","H","I","J","K","L","M",
               "N","O","P","Q","R","S","T","U","V","W","X","Y","Z">>
LowerCase == <<"a","b","c","d","e","f","g","h","i","j","k","l","m",
               "n","o","p","q","r","s","t","u","v","w","x","y","z">>
Digits == <<"0","1","2","3","4","5","6","7","8","9">>
Whitespace == {" ", "\n", "\t", "\r"}

UpperLetters == { UpperCase[i] : i \in DOMAIN UpperCase }
LowerOf == [c \in UpperLetters |-> LowerCase[CHOOSE i \in DOMAIN UpperCase : UpperCase[i] = c]]

\* str.lower() on one character.
LowerChar(c) == IF c \in UpperLetters THEN LowerOf[c] ELSE c

\* str.lower()
Lower(s) == [i \in DOMAIN s |-> LowerChar(s[i])]

\* str.replace(' ', '_')
ReplaceSpace(s) == [i \in DOMAIN s |-> IF s[i] = " " THEN "_" ELSE s[i]]

RECURSIVE LStrip(_)
LStrip(s) == IF s # <<>> /\ Head(s) \in Whitespace THEN LStrip(Tail(s)) ELSE s

RECURSIVE RStrip(_)
RStrip(s) ==
    IF s # <<>> /\ s[Len(s)] \in Whitespace
    THEN RStrip(SubSeq(s, 1, Len(s) - 1))
    ELSE s

\* str.strip()
Strip(s) == RStrip(LStrip(s))

\* Index of the first occurrence of character c in s, 0 when there is none.
Find(s, c) ==
    IF \E i \in DOMAIN s : s[i] = c
    THEN CHOOSE i \in DOMAIN s : s[i] = c /\ \A j \in 1..(i - 1) : s[j] # c
    ELSE 0

\* str.split('\n'): always at least one piece.
RECURSIVE SplitLines(_)
SplitLines(s) ==
    LET k == Find(s, "\n") IN
    IF k = 0 THEN <<s>>
    ELSE <<SubSeq(s, 1, k - 1)>> \o SplitLines(SubSeq(s, k + 1, Len(s)))

\* str.split(' ', 1): one piece without a space, else the text before the
\* first space and everything after it.
SplitFirstSpace(s) ==
    LET k == Find(s, " ") IN
    IF k = 0 THEN <<s>>
    ELSE <<SubSeq(s, 1, k - 1), SubSeq(s, k + 1, Len(s))>>

DigitValue(c) == (CHOOSE i \in DOMAIN Digits : Digits[i] = c) - 1
IsDigit(c) == \E i \in DOMAIN Digits : Digits[i] = c

RECURSIVE DecimalValue(_)
DecimalValue(s) ==
    IF s = <<>> THEN 0
    ELSE 10 * DecimalValue(SubSeq(s, 1, Len(s) - 1)) + DigitValue(s[Len(s)])

\* Whether int(s) returns rather than raising ValueError: an optional sign
\* and at least one decimal digit (texts here hold no "_" between digits
\* and no surrounding blanks, the other forms int() accepts).
IsInt(s) ==
    LET body == IF s # <<>> /\ Head(s) \in {"+", "-"} THEN Tail(s) ELSE s IN
    /\ body # <<>>
    /\ \A i \in DOMAIN body : IsDigit(body[i])

\* int(s), for s with IsInt(s).
Int_(s) ==
    IF Head(s) = "-" THEN 0 - DecimalValue(Tail(s))
    ELSE IF Head(s) = "+" THEN DecimalValue(Tail(s))
    ELSE DecimalValue(s)

\* str(n) for n >= 0, as the f-string formats the index of an id.
RECURSIVE Str(_)
Str(n) == IF n < 10 THEN <<Digits[n + 1]>> ELSE Str(n \div 10) \o <<Digits[(n % 10) + 1]>>

----------------------------------------------------------------------------
(* parse_deck_list                                                         *)

\* The id of the f-string of line 54: lowered name, spaces to underscores,
\* "_" and the decimal index.
CardId(card_name, index) == ReplaceSpace(Lower(card_name)) \o <<"_">> \o Str(index)

\* The loop "for i in range(count)" of lines 51-60, from iteration i on.
\* The index of an id is len(main_deck) + len(sideboard) + i, read after the
\* appends of the earlier iterations.
RECURSIVE CreateCards(_, _, _, _, _)
CreateCards(acc, card_name, count, i, section) ==
    IF i >= count THEN acc
    ELSE
        LET card == [name |-> card_name,
                     id |-> CardId(card_name, Len(acc.main_deck) + Len(acc.sideboard) + i)]
        IN CreateCards(
               IF section = "main"
               THEN [acc EXCEPT !.main_deck = Append(@, card)]
               ELSE [acc EXCEPT !.sideboard = Append(@, card)],
               card_name, count, i + 1, section)

\* ParseLine comparing the line itself, not its lower case, with the headers.
ParseLine_exact_headers(acc, raw) ==
    LET line == Strip(raw)
        parts == SplitFirstSpace(line)
    IN
    IF line = <<>> THEN acc
    ELSE IF line = <<"d","e","c","k">> THEN [acc EXCEPT !.current_section = "main"]
    ELSE IF line = <<"s","i","d","e","b","o","a","r","d">>
         THEN [acc EXCEPT !.current_section = "side"]
    ELSE IF acc.current_section = "none" THEN acc
    ELSE IF Len(parts) # 2 THEN acc
    ELSE IF ~IsInt(parts[1]) THEN acc
    ELSE CreateCards(acc, parts[2], Int_(parts[1]), 0, acc.current_section)

\* One iteration of "for line in lines" (lines 24-64); acc holds main_deck,
\* sideboard and current_section ("none" for None).
ParseLine(acc, raw) ==
    LET line == Strip(raw)
        parts == SplitFirstSpace(line)
    IN
    IF line = <<>> THEN acc
    ELSE IF Lower(line) = <<"d","e","c","k">> THEN [acc EXCEPT !.current_section = "main"]
    ELSE IF Lower(line) = <<"s","i","d","e","b","o","a","r","d">>
         THEN [acc EXCEPT !.current_section = "side"]
    ELSE IF acc.current_section = "none" THEN acc
    ELSE IF Len(parts) # 2 THEN acc
    ELSE IF ~IsInt(parts[1]) THEN acc
    ELSE CreateCards(acc, parts[2], Int_(parts[1]), 0, acc.current_section)

RECURSIVE ParseLines(_, _)
ParseLines(acc, lines) ==
    IF lines = <<>> THEN acc ELSE ParseLines(ParseLine(acc, Head(lines)), Tail(lines))

parse_deck_list(deck_text) ==
    LET acc == ParseLines([main_deck |-> <<>>, sideboard |-> <<>>, current_section |-> "none"],
                          SplitLines(Strip(deck_text)))
    IN [main_deck |-> acc.main_deck, sideboard |-> acc.sideboard]

----------------------------------------------------------------------------
(* Decklist texts and tool arguments the model draws its inputs from.      *)

NL == <<"\n">>
Deck_ == <<"D","e","c","k">>
deck_ == <<"d","e","c","k">>
Sideboard_ == <<"S","i","d","e","b","o","a","r","d">>
SIDEBOARD_ == <<"S","I","D","E","B","O","A","R","D">>
Opt == <<"O","p","t">>
Shock == <<"S","h","o","c","k">>
SHOCK == <<"S","H","O","C","K">>
MoxOpal == <<"M","o","x"," ","O","p","a","l">>
Bolt == <<"B","o","l","t">>

\* The card line "<count> <name>".
CardLine(count, card_name) == <<count, " ">> \o card_name

RECURSIVE Join(_)
Join(lines) ==
    IF lines = <<>> THEN <<>>
    ELSE IF Len(lines) = 1 THEN lines[1]
    ELSE lines[1] \o NL \o Join(Tail(lines))

\* The decklists uploaded in the session specification.
GameTexts ==
    { Join(<<Deck_, CardLine("1", Opt), CardLine("1", Shock),
             Sideboard_, CardLine("1", MoxOpal)>>),
      Join(<<Deck_, CardLine("2", Opt), Sideboard_, CardLine("1", Opt)>>),
      Join(<<deck_, CardLine("1", Opt), SIDEBOARD_, CardLine("1", Opt), CardLine("1", Shock)>>),
      <<>> }

\* Card names passed to play_card and sideboard_swap; Bolt is in no decklist.
ArgNames == {Opt, SHOCK, MoxOpal, Bolt}

\* Counts passed to draw_card and mulligan.
Counts == (0 - 1)..MaxCount
\* An Optional[int]: None is the empty sequence, the int n is <<n>>.
None == <<>>
Some(n) == <<n>>

----------------------------------------------------------------------------
(* Sequence helpers.                                                       *)

\* list.pop(i) leaves the list without its element of 0-based index i.
PopAt(s, i) == SubSeq(s, 1, i) \o SubSeq(s, i + 2, Len(s))

\* list.insert(i, x) for a 0-based i >= 0; an i beyond the end appends.
InsertAt(s, i, x) ==
    LET k == IF i > Len(s) THEN Len(s) ELSE i IN
    SubSeq(s, 1, k) \o <<x>> \o SubSeq(s, k + 1, Len(s))

\* The outcomes of random.shuffle(s): every reordering of s.
Shuffles(s) ==
    { [i \in 1..Len(s) |-> s[f[i]]] : f \in Permutations(1..Len(s)) }

\* 0-based index of the first card of zone whose name matches card_name
\* case-insensitively, -1 when there is none.
FirstMatch(zone, card_name) ==
    IF \E i \in DOMAIN zone : Lower(zone[i].name) = Lower(card_name)
    THEN (CHOOSE i \in DOMAIN zone :
              /\ Lower(zone[i].name) = Lower(card_name)
              /\ \A j \in 1..(i - 1) : Lower(zone[j].name) # Lower(card_name)) - 1
    ELSE 0 - 1

Min(a, b) == IF a < b THEN a ELSE b

----------------------------------------------------------------------------
(* The tools. Each is an operator from the state dict (and the arguments)  *)
(* to the state it leaves and the string it returns, or, for a tool that   *)
(* shuffles, to the set of these; a returned string is the sequence of the *)
(* parts of its f-string.                                                  *)

Names(cards) == [i \in DOMAIN cards |-> cards[i].name]

\* The loop of lines 101-104 (and 184-187): n times, pop the top of the deck
\* and append it to the hand.
RECURSIVE DrawLoop(_, _)
DrawLoop(st, n) ==
    IF n <= 0 THEN st
    ELSE DrawLoop([st EXCEPT !.deck = Tail(@), !.hand = Append(@, Head(st.deck))], n - 1)

\* draw_card without the check of line 97 stopping a draw of too many cards:
\* it draws what the deck has.
draw_card_partial(st, count) ==
    LET n == Min(count, Len(st.deck)) IN
    [state |-> DrawLoop(st, n),
     result |-> <<"Drew ", count, " card(s): ", Names(SubSeq(st.deck, 1, n))>>]

\* draw_card popping the bottom card of the deck (pop() for pop(0), line 102).
draw_card_from_bottom(st, count) ==
    IF Len(st.deck) < count
    THEN [state |-> st,
          result |-> <<"Not enough cards in deck. Only ", Len(st.deck), " remaining.">>]
    ELSE LET n == IF count < 0 THEN 0 ELSE count
             drawn == [i \in 1..n |-> st.deck[Len(st.deck) + 1 - i]]
         IN [state |-> [st EXCEPT !.deck = SubSeq(@, 1, Len(@) - n), !.hand = @ \o drawn],
             result |-> <<"Drew ", count, " card(s): ", Names(drawn)>>]

draw_card(st, count) ==
    IF Len(st.deck) < count
    THEN [state |-> st,
          result |-> <<"Not enough cards in deck. Only ", Len(st.deck), " remaining.">>]
    ELSE [state |-> DrawLoop(st, count),
          result |-> <<"Drew ", count, " card(s): ",
                       Names(SubSeq(st.deck, 1, count))>>]

\* play_card popping the last card of the hand that matches, not the first.
play_card_last_match(st, card_name) ==
    LET matches == {i \in DOMAIN st.hand : Lower(st.hand[i].name) = Lower(card_name)} IN
    IF matches # {}
    THEN LET i == CHOOSE k \in matches : \A j \in matches : j <= k IN
         [state |-> [st EXCEPT !.hand = PopAt(@, i - 1)],
          result |-> <<"Played ", st.hand[i].name, ".">>]
    ELSE [state |-> st,
          result |-> <<"Card '", card_name, "' not found in hand.">>]

play_card(st, card_name) ==
    LET i == FirstMatch(st.hand, card_name) IN
    IF i >= 0
    THEN [state |-> [st EXCEPT !.hand = PopAt(@, i)],
          result |-> <<"Played ", st.hand[i + 1].name, ".">>]
    ELSE [state |-> st,
          result |-> <<"Card '", card_name, "' not found in hand.">>]

\* The name -> count dict of lines 128-131 and 142-145, as the sequence of
\* its items in insertion (first seen) order.
RECURSIVE CardCounts(_, _)
CardCounts(cards, counts) ==
    IF cards = <<>> THEN counts
    ELSE
        LET name == Head(cards).name IN
        CardCounts(Tail(cards),
            IF \E k \in DOMAIN counts : counts[k][1] = name
            THEN [k \in DOMAIN counts |->
                     IF counts[k][1] = name THEN <<name, counts[k][2] + 1>> ELSE counts[k]]
            ELSE Append(counts, <<name, 1>>))

view_hand(st) ==
    IF st.hand = <<>>
    THEN [state |-> st, result |-> <<"Your hand is empty.">>]
    ELSE [state |-> st,
          result |-> <<"Your hand (", Len(st.hand), " cards):",
                       CardCounts(st.hand, <<>>)>>]

\* A sort by count that puts an item before the earlier items of its count.
RECURSIVE SortedByCount_unstable(_)
SortedByCount_unstable(items) ==
    IF items = <<>> THEN <<>>
    ELSE
        LET rest == SortedByCount_unstable(SubSeq(items, 1, Len(items) - 1))
            x == items[Len(items)]
            k == Cardinality({j \in DOMAIN rest : rest[j][2] > x[2]})
        IN SubSeq(rest, 1, k) \o <<x>> \o SubSeq(rest, k + 1, Len(rest))

\* sorted(items, key=count, reverse=True): stable, so items of equal count
\* keep their order.
RECURSIVE SortedByCount(_)
SortedByCount(items) ==
    IF items = <<>> THEN <<>>
    ELSE
        LET rest == SortedByCount(SubSeq(items, 1, Len(items) - 1))
            x == items[Len(items)]
            k == Cardinality({j \in DOMAIN rest : rest[j][2] >= x[2]})
        IN SubSeq(rest, 1, k) \o <<x>> \o SubSeq(rest, k + 1, Len(rest))

\* view_deck_stats reporting the size of the deck in the line of the hand.
view_deck_stats_hand_as_deck(st) ==
    IF st.deck = <<>>
    THEN [state |-> st, result |-> <<"Your deck is empty.">>]
    ELSE
        LET sorted_cards == SortedByCount(CardCounts(st.deck, <<>>)) IN
        [state |-> st,
         result |-> <<"Cards in deck: ", Len(st.deck),
                      "Cards in hand: ", Len(st.deck),
                      "Sideboard cards: ", Len(st.sideboard),
                      "Top card types in deck:",
                      SubSeq(sorted_cards, 1, Min(5, Len(sorted_cards)))>>]

view_deck_stats(st) ==
    IF st.deck = <<>>
    THEN [state |-> st, result |-> <<"Your deck is empty.">>]
    ELSE
        LET sorted_cards == SortedByCount(CardCounts(st.deck, <<>>)) IN
        [state |-> st,
         result |-> <<"Cards in deck: ", Len(st.deck),
                      "Cards in hand: ", Len(st.hand),
                      "Sideboard cards: ", Len(st.sideboard),
                      "Top card types in deck:",
                      SubSeq(sorted_cards, 1, Min(5, Len(sorted_cards)))>>]

\* Lines 172-189 of mulligan for the order random.shuffle (line 180) leaves
\* the deck in.
MulliganDraw(st, new_hand_size, shuffled) ==
    LET current_hand_size == Len(st.hand)
        draw_size == IF new_hand_size # None THEN new_hand_size[1] ELSE current_hand_size
        n == Min(draw_size, Len(shuffled))
        after == DrawLoop([st EXCEPT !.deck = shuffled, !.hand = <<>>], n)
    IN [state |-> after,
        result |-> <<"Mulliganed and drew ", Len(after.hand), " new cards.">>]

\* mulligan without line 176: the hand is dropped, not returned to the deck.
mulligan_drop_hand(st, new_hand_size) ==
    IF st.hand = <<>>
    THEN {[state |-> st, result |-> <<"Cannot mulligan with an empty hand.">>]}
    ELSE { MulliganDraw(st, new_hand_size, shuffled) : shuffled \in Shuffles(st.deck) }

\* The outcomes of mulligan, one for each order the shuffle can leave.
mulligan(st, new_hand_size) ==
    IF st.hand = <<>>
    THEN {[state |-> st, result |-> <<"Cannot mulligan with an empty hand.">>]}
    ELSE { MulliganDraw(st, new_hand_size, shuffled) :
               shuffled \in Shuffles(st.deck \o st.hand) }

\* Lines 227-234 with the deck's length taken as if the located card had
\* left it: a card located last in the deck is replaced in the hand.
RebuildOffByOne(st, main_card_idx, sideboard_card) ==
    IF main_card_idx < Len(st.deck) - 1
    THEN [st EXCEPT !.deck = InsertAt(@, main_card_idx, sideboard_card)]
    ELSE [st EXCEPT !.hand = InsertAt(@, main_card_idx - (Len(st.deck) - 1), sideboard_card)]

\* Lines 227-234: the sideboard card goes into the deck at main_card_idx when
\* that index is within the deck, else into the hand.
Rebuild(st, main_card_idx, sideboard_card) ==
    IF main_card_idx < Len(st.deck)
    THEN [st EXCEPT !.deck = InsertAt(@, main_card_idx, sideboard_card)]
    ELSE [st EXCEPT !.hand = InsertAt(@, main_card_idx - Len(st.deck), sideboard_card)]

\* Lines 219-236 without the pop of line 222: the sideboard keeps the card it
\* gives.
SwapNoPop(st, sideboard_card_idx, main_card_idx) ==
    LET all_deck == st.deck \o st.hand
        main_card == all_deck[main_card_idx + 1]
        sideboard_card == st.sideboard[sideboard_card_idx + 1]
        side == Append(st.sideboard, main_card)
    IN [state |-> Rebuild([st EXCEPT !.sideboard = side], main_card_idx, sideboard_card),
        result |-> <<"Swapped out ", main_card.name, " for ", sideboard_card.name,
                     " from sideboard.">>]

\* A swap that rebuilds deck and hand as slices of all_deck, the sideboard
\* card appended to it: a card of the hand slides into the deck.
SwapRebuildFromAllDeck(st, sideboard_card_idx, main_card_idx) ==
    LET main_card == (st.deck \o st.hand)[main_card_idx + 1]
        sideboard_card == st.sideboard[sideboard_card_idx + 1]
        all_deck == Append(PopAt(st.deck \o st.hand, main_card_idx), sideboard_card)
        side == Append(PopAt(st.sideboard, sideboard_card_idx), main_card)
    IN [state |-> [deck |-> SubSeq(all_deck, 1, Len(st.deck)),
                   sideboard |-> side,
                   hand |-> SubSeq(all_deck, Len(st.deck) + 1, Len(all_deck))],
        result |-> <<"Swapped out ", main_card.name, " for ", sideboard_card.name,
                     " from sideboard.">>]

\* Lines 219-236. all_deck is a new list: popping the card from it (line 221)
\* takes it out of neither state["deck"] nor state["hand"].
Swap(st, sideboard_card_idx, main_card_idx) ==
    LET all_deck == st.deck \o st.hand
        main_card == all_deck[main_card_idx + 1]
        sideboard_card == st.sideboard[sideboard_card_idx + 1]
        side == Append(PopAt(st.sideboard, sideboard_card_idx), main_card)
    IN [state |-> Rebuild([st EXCEPT !.sideboard = side], main_card_idx, sideboard_card),
        result |-> <<"Swapped out ", main_card.name, " for ", sideboard_card.name,
                     " from sideboard.">>]

\* sideboard_swap with the sideboard card popped before the check of line 216.
sideboard_swap_pop_first(st, remove_card, add_card) ==
    LET sideboard_card_idx == FirstMatch(st.sideboard, add_card)
        main_card_idx == FirstMatch(st.deck \o st.hand, remove_card)
    IN
    IF sideboard_card_idx < 0
    THEN [state |-> st, result |-> <<"Card '", add_card, "' not found in sideboard.">>]
    ELSE IF main_card_idx < 0
    THEN [state |-> [st EXCEPT !.sideboard = PopAt(@, sideboard_card_idx)],
          result |-> <<"Card '", remove_card, "' not found in deck or hand.">>]
    ELSE Swap(st, sideboard_card_idx, main_card_idx)

sideboard_swap(st, remove_card, add_card) ==
    LET sideboard_card_idx == FirstMatch(st.sideboard, add_card)
        main_card_idx == FirstMatch(st.deck \o st.hand, remove_card)
    IN
    IF sideboard_card_idx < 0
    THEN [state |-> st, result |-> <<"Card '", add_card, "' not found in sideboard.">>]
    ELSE IF main_card_idx < 0
    THEN [state |-> st, result |-> <<"Card '", remove_card, "' not found in deck or hand.">>]
    ELSE Swap(st, sideboard_card_idx, main_card_idx)

\* reset_game with deck_backup taken from the deck alone.
reset_game_deck_only(st) ==
    { [state |-> [st EXCEPT !.deck = shuffled, !.hand = <<>>],
       result |-> <<"Game reset. Deck shuffled.">>] :
          shuffled \in Shuffles(st.deck) }

\* The outcomes of reset_game, one for each order the shuffle (line 245) can
\* leave deck_backup in.
reset_game(st) ==
    { [state |-> [st EXCEPT !.deck = shuffled, !.hand = <<>>],
       result |-> <<"Game reset. Deck shuffled.">>] :
          shuffled \in Shuffles(st.deck \o st.hand) }

\* upload_deck shuffling the sideboard as it shuffles the deck.
upload_deck_shuffles_sideboard(parsed) ==
    { [state |-> [deck |-> shuffled, sideboard |-> side, hand |-> <<>>],
       result |-> <<"Deck uploaded with ", Len(shuffled), " main deck cards and ",
                    Len(side), " sideboard cards.">>] :
          shuffled \in Shuffles(parsed.main_deck), side \in Shuffles(parsed.sideboard) }

\* The outcomes of upload_deck for what parse_deck_list returned (line 78),
\* one for each order the shuffle (line 86) can leave main_deck in.
upload_deck(parsed) ==
    { [state |-> [deck |-> shuffled, sideboard |-> parsed.sideboard, hand |-> <<>>],
       result |-> <<"Deck uploaded with ", Len(shuffled), " main deck cards and ",
                    Len(parsed.sideboard), " sideboard cards.">>] :
          shuffled \in Shuffles(parsed.main_deck) }

----------------------------------------------------------------------------
(* The session: the module-level state dict and the calls made on it.      *)
(* parsed_cards is what parse_deck_list returned to the last upload_deck;  *)
(* last records the last call: the tool, its arguments, the state dict it  *)
(* found and the string it returned.                                       *)

Size(st) == Len(st.deck) + Len(st.hand) + Len(st.sideboard)

Init ==
    /\ state = [deck |-> <<>>, sideboard |-> <<>>, hand |-> <<>>]
    /\ parsed_cards = [main_deck |-> <<>>, sideboard |-> <<>>]
    /\ last = [op |-> "init", args |-> <<>>, pre |-> state, result |-> <<>>]
    /\ tasks = <<>>
    /\ running = 0

Call(op, args, out) ==
    /\ state' = out.state
    /\ last' = [op |-> op, args |-> args, pre |-> state, result |-> out.result]
    /\ UNCHANGED <<tasks, running>>

\* The calls upload_deck(deck_list) of a set of decklist texts, each with what
\* parse_deck_list returns for it (line 78).
Uploads(texts) == { [deck_list |-> t, parsed |-> parse_deck_list(t)] : t \in texts }

GameUploads == Uploads(GameTexts)

UploadFrom(uploads) ==
    \E u \in uploads :
        \E out \in upload_deck(u.parsed) :
            /\ Call("upload_deck", <<u.deck_list>>, out)
            /\ parsed_cards' = u.parsed

UploadDeck == UploadFrom(GameUploads)

DrawCard ==
    \E count \in Counts :
        /\ Call("draw_card", <<count>>, draw_card(state, count))
        /\ UNCHANGED parsed_cards

PlayCard ==
    \E card_name \in ArgNames :
        /\ Call("play_card", <<card_name>>, play_card(state, card_name))
        /\ UNCHANGED parsed_cards

ViewHand ==
    /\ Call("view_hand", <<>>, view_hand(state))
    /\ UNCHANGED parsed_cards

ViewDeckStats ==
    /\ Call("view_deck_stats", <<>>, view_deck_stats(state))
    /\ UNCHANGED parsed_cards

Mulligan ==
    \E new_hand_size \in {Some(n) : n \in Counts} \cup {None} :
        \E out \in mulligan(state, new_hand_size) :
            /\ Call("mulligan", <<new_hand_size>>, out)
            /\ UNCHANGED parsed_cards

SideboardSwap ==
    \E remove_card \in ArgNames, add_card \in ArgNames :
        LET out == sideboard_swap(state, remove_card, add_card) IN
        /\ Size(out.state) <= MaxCards
        /\ Call("sideboard_swap", <<remove_card, add_card>>, out)
        /\ UNCHANGED parsed_cards

ResetGame ==
    \E out \in reset_game(state) :
        /\ Call("reset_game", <<>>, out)
        /\ UNCHANGED parsed_cards

Next ==
    \/ UploadDeck
    \/ DrawCard
    \/ PlayCard
    \/ ViewHand
    \/ ViewDeckStats
    \/ Mulligan
    \/ SideboardSwap
    \/ ResetGame

Spec == Init /\ [][Next]_vars

----------------------------------------------------------------------------
(* The parser specification: uploads of every text of at most MaxLines     *)
(* lines taken from ParseLineChoices.                                      *)

ParseLineChoices ==
    { Deck_, SIDEBOARD_, CardLine("2", Opt), CardLine("1", Opt),
      CardLine("1", Shock), CardLine("x", Opt), <<>> }

RECURSIVE LineSeqs(_)
LineSeqs(n) ==
    IF n = 0 THEN {<<>>}
    ELSE LET shorter == LineSeqs(n - 1) IN
         shorter \cup { Append(ls, l) : ls \in {x \in shorter : Len(x) = n - 1},
                                        l \in ParseLineChoices }

ParseTexts == { Join(ls) : ls \in LineSeqs(MaxLines) }

ParseUploads == Uploads(ParseTexts)

ParseNext == UploadFrom(ParseUploads)

SpecParse == Init /\ [][ParseNext]_vars

----------------------------------------------------------------------------
(* The stats specification: one upload of a decklist of six card names,    *)
(* one of them in two copies, then draws and views of the deck stats.      *)

Ponder == <<"P","o","n","d","e","r">>
Duress == <<"D","u","r","e","s","s">>

StatsTexts ==
    { Join(<<Deck_, CardLine("1", Opt), CardLine("1", Shock), CardLine("1", Bolt),
             CardLine("2", Ponder), CardLine("1", Duress), CardLine("1", MoxOpal)>>) }

StatsUploads == Uploads(StatsTexts)

StatsUpload == last.op = "init" /\ UploadFrom(StatsUploads)

StatsNext == StatsUpload \/ DrawCard \/ ViewDeckStats

SpecStats == Init /\ [][StatsNext]_vars

----------------------------------------------------------------------------
(* The swap specification: uploads of a decklist of three main deck cards  *)
(* and two sideboard cards, draws, and swaps while the zones hold at most  *)
(* MaxSwapCards cards.                                                     *)

MaxSwapCards == 6

SwapTexts ==
    { Join(<<Deck_, CardLine("1", Opt), CardLine("1", Shock), CardLine("1", Bolt),
             Sideboard_, CardLine("1", MoxOpal), CardLine("1", Opt)>>) }

SwapUploads == Uploads(SwapTexts)

SwapUpload == UploadFrom(SwapUploads)

SwapDeckCards ==
    \E remove_card \in ArgNames, add_card \in ArgNames :
        LET out == sideboard_swap(state, remove_card, add_card) IN
        /\ Size(out.state) <= MaxSwapCards
        /\ Call("sideboard_swap", <<remove_card, add_card>>, out)
        /\ UNCHANGED parsed_cards

SwapNext == SwapUpload \/ DrawCard \/ SwapDeckCards

SpecSwap == Init /\ [][SwapNext]_vars

----------------------------------------------------------------------------
(* The event loop specification. The tools are coroutines of one asyncio   *)
(* event loop (mcp.run, line 251): a call in flight is a task, the loop     *)
(* runs one task at a time and takes another only when the running one     *)
(* awaits or returns. mulligan and sideboard_swap are run statement by      *)
(* statement; tasks holds <<op, args, pc, locals>> for every call in        *)
(* flight, running the task that has the loop, 0 when it is free.           *)

\* The await expressions of the tool bodies: there is none in lines 71-247.
Awaits_in_mulligan(op, pc) == op = "mulligan" /\ pc = "clear"

Awaits(op, pc) == FALSE

Returned(task) == <<task[1], task[2], "done", task[4]>>

\* One statement of mulligan (lines 169-189); locals are <<draw_size>> and,
\* in the loop, <<draw_size, iterations left>>.
MulliganStep(task, st) ==
    LET pc == task[3]
        new_hand_size == task[2][1]
        At(next, locals) == <<task[1], task[2], next, locals>>
    IN
    CASE pc = "start" ->
             IF st.hand = <<>> THEN {<<Returned(task), st>>}
             ELSE {<<At("extend", <<IF new_hand_size # None THEN new_hand_size[1]
                                    ELSE Len(st.hand)>>), st>>}
      [] pc = "extend" -> {<<At("clear", task[4]), [st EXCEPT !.deck = @ \o st.hand]>>}
      [] pc = "clear" -> {<<At("shuffle", task[4]), [st EXCEPT !.hand = <<>>]>>}
      [] pc = "shuffle" ->
             { <<At("range", task[4]), [st EXCEPT !.deck = shuffled]>> :
                   shuffled \in Shuffles(st.deck) }
      [] pc = "range" ->
             LET n == Min(task[4][1], Len(st.deck)) IN
             IF n <= 0 THEN {<<Returned(task), st>>}
             ELSE {<<At("pop", <<task[4][1], n>>), st>>}
      [] pc = "pop" ->
             LET after == [st EXCEPT !.deck = Tail(@), !.hand = Append(@, Head(st.deck))]
                 left == task[4][2] - 1
             IN IF left = 0 THEN {<<Returned(task), after>>}
                ELSE {<<At("pop", <<task[4][1], left>>), after>>}

\* One statement of sideboard_swap (lines 200-236); locals grow to
\* <<sideboard_card_idx, main_card_idx, main_card, sideboard_card>>.
SwapStep(task, st) ==
    LET pc == task[3]
        remove_card == task[2][1]
        add_card == task[2][2]
        At(next, locals) == <<task[1], task[2], next, locals>>
    IN
    CASE pc = "start" ->
             LET sideboard_card_idx == FirstMatch(st.sideboard, add_card) IN
             IF sideboard_card_idx < 0 THEN {<<Returned(task), st>>}
             ELSE {<<At("find", <<sideboard_card_idx>>), st>>}
      [] pc = "find" ->
             LET all_deck == st.deck \o st.hand
                 main_card_idx == FirstMatch(all_deck, remove_card)
             IN IF main_card_idx < 0 THEN {<<Returned(task), st>>}
                ELSE {<<At("pop", <<task[4][1], main_card_idx, all_deck[main_card_idx + 1]>>),
                        st>>}
      [] pc = "pop" ->
             {<<At("append", Append(task[4], st.sideboard[task[4][1] + 1])),
                [st EXCEPT !.sideboard = PopAt(@, task[4][1])]>>}
      [] pc = "append" ->
             {<<At("rebuild", task[4]), [st EXCEPT !.sideboard = Append(@, task[4][3])]>>}
      [] pc = "rebuild" -> {<<Returned(task), Rebuild(st, task[4][2], task[4][4])>>}

TaskStep(task, st) ==
    IF task[1] = "mulligan" THEN MulliganStep(task, st) ELSE SwapStep(task, st)

\* The calls made together.
ConcurrentCalls ==
    { <<"mulligan", <<None>>>>, <<"mulligan", <<Some(1)>>>>,
      <<"sideboard_swap", <<Opt, MoxOpal>>>>, <<"sideboard_swap", <<SHOCK, Opt>>>> }

CallSeqs == UNION { [1..n -> ConcurrentCalls] : n \in 2..MaxTasks }

\* Several calls arrive: each becomes a task that has not begun.
Invoke ==
    /\ tasks = <<>>
    /\ \E calls \in CallSeqs :
           /\ Size(state) + Cardinality({ i \in DOMAIN calls : calls[i][1] = "sideboard_swap" })
                  <= MaxSwapCards
           /\ tasks' = [i \in DOMAIN calls |-> <<calls[i][1], calls[i][2], "start", <<>>>>]
           /\ last' = [op |-> "invoke", args |-> calls, pre |-> state, result |-> <<>>]
    /\ running' = 0
    /\ UNCHANGED <<state, parsed_cards>>

\* The loop runs the next statement of the task it is running or, when it is
\* free, of any task; the task keeps the loop unless it returns or awaits.
RunStep ==
    \E t \in DOMAIN tasks :
        /\ running \in {0, t}
        /\ tasks[t][3] # "done"
        /\ \E out \in TaskStep(tasks[t], state) :
               /\ tasks' = [tasks EXCEPT ![t] = out[1]]
               /\ state' = out[2]
               /\ running' = IF out[1][3] = "done" \/ Awaits(tasks[t][1], tasks[t][3])
                              THEN 0 ELSE t
        /\ UNCHANGED <<parsed_cards, last>>

\* Every call has returned: the tasks end.
Respond ==
    /\ tasks # <<>>
    /\ \A t \in DOMAIN tasks : tasks[t][3] = "done"
    /\ tasks' = <<>>
    /\ running' = 0
    /\ last' = [op |-> "respond", args |-> last.args, pre |-> last.pre, result |-> <<>>]
    /\ UNCHANGED <<state, parsed_cards>>

LoopUpload == tasks = <<>> /\ UploadDeck

LoopDraw == tasks = <<>> /\ DrawCard

LoopNext == LoopUpload \/ LoopDraw \/ Invoke \/ RunStep \/ Respond

SpecLoop == Init /\ [][LoopNext]_vars

----------------------------------------------------------------------------
(* Vocabulary of the properties.                                           *)

Called(op) == last.op = op

Cards(st) == st.deck \o st.hand \o st.sideboard

ParsedCards == parsed_cards.main_deck \o parsed_cards.sideboard

DistinctIds(cards) ==
    \A i, j \in DOMAIN cards : i # j => cards[i].id # cards[j].id

Occurs(card, zone) == \E i \in DOMAIN zone : zone[i] = card

\* The multiset of the elements of a sequence.
BagOf(s) ==
    [x \in {s[i] : i \in DOMAIN s} |-> Cardinality({i \in DOMAIN s : s[i] = x})]

SameName(a, b) == Lower(a) = Lower(b)

NoMatch(zone, card_name) == \A i \in DOMAIN zone : ~SameName(zone[i].name, card_name)

\* i is the (1-based) position of the first card of zone named card_name.
IsFirstMatch(zone, card_name, i) ==
    /\ i \in DOMAIN zone
    /\ SameName(zone[i].name, card_name)
    /\ \A j \in 1..(i - 1) : ~SameName(zone[j].name, card_name)

Swapped == Called("sideboard_swap") /\ last.result[1] = "Swapped out "

----------------------------------------------------------------------------
(* Properties.                                                             *)

\* C1 (conservation): in every state after an upload, whatever calls
\* followed it, the three zones hold together as many cards as the last
\* uploaded decklist parsed to.
C1_Conservation ==
    ~Called("init") => Len(Cards(state)) = Len(ParsedCards)

\* C2 (identity uniqueness): when the cards parsed by the last upload have
\* pairwise distinct ids, no id occurs twice in the three zones, neither in
\* two zones nor twice in one.
C2_IdentityUniqueness ==
    (~Called("init") /\ DistinctIds(ParsedCards)) => DistinctIds(Cards(state))

\* C3 (swap moves both cards): after a successful sideboard_swap the located
\* main-zone card (first match in deck-then-hand) is in neither deck nor
\* hand and is the last card of the sideboard, the located sideboard card
\* is no longer in the sideboard, and the sizes of deck plus hand and of the
\* sideboard are what they were.
C3_SwapMovesBothCards ==
    Swapped =>
        LET pre == last.pre
            main == pre.deck \o pre.hand
        IN \A i \in DOMAIN main, k \in DOMAIN pre.sideboard :
               (IsFirstMatch(main, last.args[1], i)
                    /\ IsFirstMatch(pre.sideboard, last.args[2], k)) =>
                   /\ ~Occurs(main[i], state.deck)
                   /\ ~Occurs(main[i], state.hand)
                   /\ state.sideboard # <<>>
                   /\ state.sideboard[Len(state.sideboard)] = main[i]
                   /\ ~Occurs(pre.sideboard[k], state.sideboard)
                   /\ Len(state.deck) + Len(state.hand) = Len(pre.deck) + Len(pre.hand)
                   /\ Len(state.sideboard) = Len(pre.sideboard)

\* C4 (swap round trip): from any state after an upload in which
\* sideboard_swap(A, B) succeeds, sideboard_swap(A, B) followed at once by
\* sideboard_swap(B, A) leaves each zone with the multiset of card names it
\* had.
C4_SwapRoundTrip ==
    ~Called("init") =>
        \A A \in ArgNames, B \in ArgNames :
            LET first == sideboard_swap(state, A, B)
                second == sideboard_swap(first.state, B, A)
            IN first.result[1] = "Swapped out " =>
                   /\ BagOf(Names(second.state.deck)) = BagOf(Names(state.deck))
                   /\ BagOf(Names(second.state.hand)) = BagOf(Names(state.hand))
                   /\ BagOf(Names(second.state.sideboard)) = BagOf(Names(state.sideboard))

\* C5 (state unchanged on failure): a draw of more cards than the deck holds,
\* a play of a name not in the hand, a mulligan of an empty hand and a swap
\* whose add name is not in the sideboard or whose remove name is in
\* neither deck nor hand each return their failure message and leave the
\* three zones exactly as they were.
C5_FailureLeavesState ==
    LET pre == last.pre IN
    /\ (Called("draw_card") /\ last.args[1] > Len(pre.deck)) =>
           /\ last.result = <<"Not enough cards in deck. Only ", Len(pre.deck), " remaining.">>
           /\ state = pre
    /\ (Called("play_card") /\ NoMatch(pre.hand, last.args[1])) =>
           /\ last.result = <<"Card '", last.args[1], "' not found in hand.">>
           /\ state = pre
    /\ (Called("mulligan") /\ pre.hand = <<>>) =>
           /\ last.result = <<"Cannot mulligan with an empty hand.">>
           /\ state = pre
    /\ (Called("sideboard_swap") /\ NoMatch(pre.sideboard, last.args[2])) =>
           /\ last.result = <<"Card '", last.args[2], "' not found in sideboard.">>
           /\ state = pre
    /\ (Called("sideboard_swap") /\ ~NoMatch(pre.sideboard, last.args[2])
            /\ NoMatch(pre.deck \o pre.hand, last.args[1])) =>
           /\ last.result = <<"Card '", last.args[1], "' not found in deck or hand.">>
           /\ state = pre

\* A swap refused for its remove name, after its add name was found in the
\* sideboard, with cards in deck and hand.
C5_Witness ==
    /\ Called("sideboard_swap")
    /\ ~NoMatch(last.pre.sideboard, last.args[2])
    /\ NoMatch(last.pre.deck \o last.pre.hand, last.args[1])
    /\ last.pre.deck # <<>>
    /\ last.pre.hand # <<>>

\* C6 (draw atomicity and order): draw_card(count) with count >= 0 either
\* (count <= len(deck)) takes the first count cards off the deck, appends
\* them to the hand in that order, returns their names in that order and
\* keeps the rest of the deck, the earlier hand and the sideboard as they
\* were, or (count > len(deck)) moves nothing and reports it.
C6_DrawAtomic ==
    (Called("draw_card") /\ last.args[1] >= 0) =>
        LET pre == last.pre
            count == last.args[1]
        IN IF count <= Len(pre.deck)
           THEN /\ state.deck = SubSeq(pre.deck, count + 1, Len(pre.deck))
                /\ state.hand = pre.hand \o SubSeq(pre.deck, 1, count)
                /\ state.sideboard = pre.sideboard
                /\ last.result = <<"Drew ", count, " card(s): ",
                                   [i \in 1..count |-> pre.deck[i].name]>>
           ELSE /\ state = pre
                /\ last.result[1] = "Not enough cards in deck. Only "

\* Two cards of different names drawn from a deck of three into a hand that
\* already held a card.
C6_Witness ==
    /\ Called("draw_card")
    /\ last.args[1] = 2
    /\ Len(last.pre.deck) = 3
    /\ last.pre.deck[1].name # last.pre.deck[2].name
    /\ Len(state.hand) = 2

\* C7 (parser id uniqueness): the cards parse_deck_list returns for a
\* decklist, main deck and sideboard together, have pairwise distinct ids.
C7_ParserIdsDistinct ==
    Called("upload_deck") => DistinctIds(ParsedCards)

\* C8 (swap position): after a successful sideboard_swap the card taken from
\* the sideboard is in the zone the located main-zone card was in, at the
\* index that card had there.
C8_SwapPosition ==
    Swapped =>
        LET pre == last.pre
            main == pre.deck \o pre.hand
        IN \A i \in DOMAIN main, k \in DOMAIN pre.sideboard :
               (IsFirstMatch(main, last.args[1], i)
                    /\ IsFirstMatch(pre.sideboard, last.args[2], k)) =>
                   IF i <= Len(pre.deck)
                   THEN /\ i \in DOMAIN state.deck
                        /\ state.deck[i] = pre.sideboard[k]
                   ELSE /\ (i - Len(pre.deck)) \in DOMAIN state.hand
                        /\ state.hand[i - Len(pre.deck)] = pre.sideboard[k]

\* A swap whose located card was the last card of the deck while the hand
\* held cards of another id than the card swapped in.
C8_Witness ==
    /\ Swapped
    /\ last.pre.deck # <<>>
    /\ last.pre.hand # <<>>
    /\ IsFirstMatch(last.pre.deck \o last.pre.hand, last.args[1], Len(last.pre.deck))
    /\ \A k \in DOMAIN last.pre.sideboard :
           IsFirstMatch(last.pre.sideboard, last.args[2], k) =>
               ~Occurs(last.pre.sideboard[k], last.pre.hand)

\* C9 (mulligan): mulligan of a non-empty hand with new_hand_size n >= 0
\* leaves min(n, len(deck) + len(hand)) cards in the hand, with no size
\* given as many as the hand held; deck and hand together keep their
\* multiset of cards and the sideboard is as it was.
C9_Mulligan ==
    (Called("mulligan") /\ last.pre.hand # <<>>) =>
        LET pre == last.pre
            total == Len(pre.deck) + Len(pre.hand)
        IN /\ BagOf(state.deck \o state.hand) = BagOf(pre.deck \o pre.hand)
           /\ state.sideboard = pre.sideboard
           /\ last.args[1] = None => Len(state.hand) = Len(pre.hand)
           /\ (last.args[1] # None /\ last.args[1][1] >= 0) =>
                  Len(state.hand) = (IF last.args[1][1] < total THEN last.args[1][1] ELSE total)

\* A mulligan asking for more cards than deck and hand hold together, with
\* cards in both.
C9_Witness ==
    /\ Called("mulligan")
    /\ last.pre.hand # <<>>
    /\ last.pre.deck # <<>>
    /\ last.args[1] # None
    /\ last.args[1][1] > Len(last.pre.deck) + Len(last.pre.hand)
    /\ Len(state.hand) = Len(last.pre.deck) + Len(last.pre.hand)

\* C10 (reset): reset_game leaves the hand empty, the deck a reordering of
\* exactly the cards deck and hand held, and the sideboard as it was.
C10_Reset ==
    Called("reset_game") =>
        /\ state.hand = <<>>
        /\ BagOf(state.deck) = BagOf(last.pre.deck \o last.pre.hand)
        /\ state.sideboard = last.pre.sideboard

\* A reset with cards in deck, hand and sideboard that leaves the deck in
\* another order than deck-then-hand.
C10_Witness ==
    /\ Called("reset_game")
    /\ last.pre.deck # <<>>
    /\ last.pre.hand # <<>>
    /\ Len(last.pre.sideboard) >= 2
    /\ state.deck # last.pre.deck \o last.pre.hand

\* C11 (upload): from any state upload_deck succeeds and leaves the hand
\* empty, the deck a reordering of exactly the main-deck cards parsed from
\* its text and the sideboard the parsed sideboard in parse order, so that
\* the zones hold the parsed cards and nothing else.
C11_Upload ==
    Called("upload_deck") =>
        LET parsed == parse_deck_list(last.args[1]) IN
        /\ parsed_cards = parsed
        /\ state.hand = <<>>
        /\ BagOf(state.deck) = BagOf(parsed.main_deck)
        /\ state.sideboard = parsed.sideboard
        /\ last.result = <<"Deck uploaded with ", Len(parsed.main_deck),
                           " main deck cards and ", Len(parsed.sideboard),
                           " sideboard cards.">>

\* An upload of a decklist with two sideboard cards into a session that a
\* swap had left with cards in deck, hand and sideboard, none of them among
\* the cards of the new decklist.
C11_Witness ==
    /\ Called("upload_deck")
    /\ last.pre.deck # <<>>
    /\ last.pre.hand # <<>>
    /\ Len(last.pre.sideboard) # Len(state.sideboard)
    /\ Len(Cards(last.pre)) = MaxCards
    /\ Len(state.sideboard) = 2
    /\ \A i \in DOMAIN Cards(last.pre) : ~Occurs(Cards(last.pre)[i], Cards(state))

\* C12 (play): play_card removes from the hand exactly the first card whose
\* name matches case-insensitively, keeps the other hand cards in order and
\* leaves deck and sideboard as they were; without a match it reports the
\* card as not found and the hand is as it was.
C12_Play ==
    Called("play_card") =>
        LET pre == last.pre IN
        /\ state.deck = pre.deck
        /\ state.sideboard = pre.sideboard
        /\ NoMatch(pre.hand, last.args[1]) =>
               /\ state.hand = pre.hand
               /\ last.result = <<"Card '", last.args[1], "' not found in hand.">>
        /\ \A i \in DOMAIN pre.hand :
               IsFirstMatch(pre.hand, last.args[1], i) =>
                   /\ state.hand = SubSeq(pre.hand, 1, i - 1)
                                       \o SubSeq(pre.hand, i + 1, Len(pre.hand))
                   /\ last.result = <<"Played ", pre.hand[i].name, ".">>

\* A play of the first of two matching cards of different ids, which leaves
\* the second in the hand.
C12_Witness ==
    /\ Called("play_card")
    /\ \E i, j \in DOMAIN last.pre.hand :
           /\ i < j
           /\ IsFirstMatch(last.pre.hand, last.args[1], i)
           /\ SameName(last.pre.hand[j].name, last.args[1])
           /\ last.pre.hand[j].id # last.pre.hand[i].id
           /\ Occurs(last.pre.hand[j], state.hand)
           /\ ~Occurs(last.pre.hand[i], state.hand)

\* C19 (sideboard size): after an upload the sideboard keeps the number of
\* cards the upload gave it through every draw, play, mulligan, swap, reset
\* and view; only another upload changes it.
C19_SideboardSize ==
    ~Called("init") => Len(state.sideboard) = Len(parsed_cards.sideboard)

\* A successful swap, which leaves the sideboard with other cards than the
\* upload gave it.
C19_Witness ==
    /\ Swapped
    /\ Len(state.sideboard) = 2
    /\ state.sideboard # parsed_cards.sideboard
    /\ BagOf(state.sideboard) # BagOf(parsed_cards.sideboard)

\* C20 (draws compose): in every state, for a, b >= 0 with a + b <= len(deck),
\* draw_card(a) followed by draw_card(b) leaves the three zones as one
\* draw_card(a + b) does, and a successful draw leaves the hand followed by
\* the deck the sequence of cards it was.
C20_DrawsCompose ==
    /\ \A a \in 0..MaxCount, b \in 0..MaxCount :
           a + b <= Len(state.deck) =>
               draw_card(draw_card(state, a).state, b).state = draw_card(state, a + b).state
    /\ (Called("draw_card") /\ last.result[1] = "Drew ") =>
           state.hand \o state.deck = last.pre.hand \o last.pre.deck

\* A draw of one card that leaves two cards of different ids in the deck for
\* further draws.
C20_Witness ==
    /\ Called("draw_card")
    /\ last.args[1] = 1
    /\ last.result[1] = "Drew "
    /\ Len(state.hand) = 1
    /\ Len(state.deck) = 2
    /\ state.deck[1].id # state.deck[2].id

\* The string returned reports the sizes of the three zones of st.
ReportsSizes(result, st) ==
    /\ Len(result) >= 6
    /\ result[1] = "Cards in deck: "
    /\ result[2] = Len(st.deck)
    /\ result[3] = "Cards in hand: "
    /\ result[4] = Len(st.hand)
    /\ result[5] = "Sideboard cards: "
    /\ result[6] = Len(st.sideboard)

\* C13 (stats report the sizes): view_deck_stats reports the sizes of deck,
\* hand and sideboard in every state, the states with an empty deck and
\* cards in hand or sideboard included.
C13_StatsAlwaysSizes ==
    Called("view_deck_stats") => ReportsSizes(last.result, state)

\* C13 as amended: view_deck_stats changes no zone; with cards in the deck
\* it reports the sizes of deck, hand and sideboard, and with an empty deck
\* it returns "Your deck is empty." alone, whatever hand and sideboard hold.
C13_StatsSizes ==
    Called("view_deck_stats") =>
        /\ state = last.pre
        /\ IF state.deck # <<>>
           THEN ReportsSizes(last.result, state)
           ELSE last.result = <<"Your deck is empty.">>

\* The stats of a session whose deck is drawn out while hand and sideboard
\* hold cards.
C13_Witness ==
    /\ Called("view_deck_stats")
    /\ state.deck = <<>>
    /\ state.hand # <<>>
    /\ state.sideboard # <<>>

\* What a line of ParseLineChoices is to a reader of the decklist: a header,
\* a card line <<"card", count, name>>, or a line that stands for nothing
\* (blank, or with a first token that is no integer).
LineMeaning(l) ==
    CASE l = Deck_ -> <<"deck">>
      [] l = SIDEBOARD_ -> <<"sideboard">>
      [] l = CardLine("2", Opt) -> <<"card", 2, Opt>>
      [] l = CardLine("1", Opt) -> <<"card", 1, Opt>>
      [] l = CardLine("1", Shock) -> <<"card", 1, Shock>>
      [] OTHER -> <<"nothing">>

\* The header most recently before line k of ls, "nothing" if none.
LastHeader(ls, k) ==
    LET hs == { j \in 1..(k - 1) : LineMeaning(ls[j])[1] \in {"deck", "sideboard"} } IN
    IF hs = {} THEN "nothing"
    ELSE LineMeaning(ls[CHOOSE j \in hs : \A h \in hs : h <= j])[1]

RECURSIVE Copies(_, _)
Copies(card_name, n) == IF n <= 0 THEN <<>> ELSE <<card_name>> \o Copies(card_name, n - 1)

\* The names the card lines of ls under the header put into its section,
\* from line k on.
RECURSIVE NamesUnder(_, _, _)
NamesUnder(ls, k, header) ==
    IF k > Len(ls) THEN <<>>
    ELSE LET m == LineMeaning(ls[k]) IN
         (IF m[1] = "card" /\ LastHeader(ls, k) = header THEN Copies(m[3], m[2]) ELSE <<>>)
             \o NamesUnder(ls, k + 1, header)

\* Every text of SpecParse with the names its lines put into each section.
ParseExpected ==
    { <<Join(ls), NamesUnder(ls, 1, "deck"), NamesUnder(ls, 1, "sideboard")>> :
          ls \in LineSeqs(MaxLines) }

\* C16 (parser sectioning): the parsed main deck holds, in line order, count
\* cards of the name of every card line whose most recent header is "deck"
\* in any case, the parsed sideboard the same for "sideboard"; lines before
\* a header, blank lines and lines without an integer first add nothing,
\* and the empty text gives two empty sequences.
C16_ParserSectioning ==
    Called("upload_deck") =>
        /\ \E e \in ParseExpected : e[1] = last.args[1]
        /\ \A e \in ParseExpected :
               e[1] = last.args[1] =>
                   /\ Names(parsed_cards.main_deck) = e[2]
                   /\ Names(parsed_cards.sideboard) = e[3]

\* A text with a card line before any header, then a sideboard header in
\* upper case and a card line of two copies.
C16_Witness ==
    /\ Called("upload_deck")
    /\ last.args[1] = Join(<<CardLine("1", Shock), SIDEBOARD_, CardLine("2", Opt)>>)
    /\ parsed_cards.main_deck = <<>>
    /\ Names(parsed_cards.sideboard) = <<Opt, Opt>>

\* The number of cards of a name in a zone, and the place of the first.
CountIn(zone, card_name) == Cardinality({ i \in DOMAIN zone : zone[i].name = card_name })

FirstIn(zone, card_name) ==
    CHOOSE i \in DOMAIN zone :
        /\ zone[i].name = card_name
        /\ \A j \in 1..(i - 1) : zone[j].name # card_name

\* C17 (top five): with cards in the deck, view_deck_stats lists the names of
\* the deck, five at most and all of them if there are fewer, each with its
\* number of copies, in descending order of copies, names of equal copies in
\* the order of their first card in the deck; no name left out has more
\* copies than a listed one.
C17_TopFive ==
    (Called("view_deck_stats") /\ state.deck # <<>>) =>
        LET top == last.result[8]
            names == { state.deck[i].name : i \in DOMAIN state.deck }
            listed == { top[i][1] : i \in DOMAIN top }
        IN
        /\ Len(top) = Min(5, Cardinality(names))
        /\ listed \subseteq names
        /\ \A i \in DOMAIN top : top[i][2] = CountIn(state.deck, top[i][1])
        /\ \A i \in DOMAIN top, j \in DOMAIN top :
               i < j =>
                   \/ top[i][2] > top[j][2]
                   \/ /\ top[i][2] = top[j][2]
                      /\ FirstIn(state.deck, top[i][1]) < FirstIn(state.deck, top[j][1])
        /\ \A n \in names \ listed, i \in DOMAIN top : top[i][2] >= CountIn(state.deck, n)

\* Stats of a deck of six names: five are listed, the name in two copies
\* first although another name is on top of the deck.
C17_Witness ==
    /\ Called("view_deck_stats")
    /\ Cardinality({ state.deck[i].name : i \in DOMAIN state.deck }) = 6
    /\ Len(last.result[8]) = 5
    /\ last.result[8][1] = <<Ponder, 2>>
    /\ state.deck[1].name # Ponder
    /\ state.deck[2].name # Ponder

\* The cards of a zone other than the two cards of a swap, in their order.
RECURSIVE Others(_, _, _)
Others(zone, main_card, sideboard_card) ==
    IF zone = <<>> THEN <<>>
    ELSE (IF Head(zone) = main_card \/ Head(zone) = sideboard_card
          THEN <<>> ELSE <<Head(zone)>>)
             \o Others(Tail(zone), main_card, sideboard_card)

\* C18 (swap keeps the order of the other cards): after a successful
\* sideboard_swap the cards of the deck other than the two swapped cards are
\* in the order they had, the same for the hand, and no other card has left
\* or entered a zone.
C18_SwapKeepsOrder ==
    Swapped =>
        \A i \in 1..Len(last.pre.deck \o last.pre.hand), j \in 1..Len(last.pre.sideboard) :
            (/\ IsFirstMatch(last.pre.deck \o last.pre.hand, last.args[1], i)
             /\ IsFirstMatch(last.pre.sideboard, last.args[2], j)) =>
                LET main_card == (last.pre.deck \o last.pre.hand)[i]
                    sideboard_card == last.pre.sideboard[j]
                IN
                /\ Others(state.deck, main_card, sideboard_card)
                       = Others(last.pre.deck, main_card, sideboard_card)
                /\ Others(state.hand, main_card, sideboard_card)
                       = Others(last.pre.hand, main_card, sideboard_card)
                /\ Others(state.sideboard, main_card, sideboard_card)
                       = Others(last.pre.sideboard, main_card, sideboard_card)

\* A swap of the middle card of a deck of three: the other two cards are
\* around the card that comes in.
C18_Witness ==
    /\ Swapped
    /\ Len(last.pre.deck) = 3
    /\ IsFirstMatch(last.pre.deck, last.args[1], 2)
    /\ Len(state.deck) = 4
    /\ state.deck[1] = last.pre.deck[1]
    /\ state.deck[4] = last.pre.deck[3]
    /\ Len(Others(state.deck, last.pre.deck[2], state.deck[2])) = 2

\* A task between its first statement and its return.
Mid(t) == tasks[t][3] \notin {"start", "done"}

\* The zones a call can leave when run whole from st.
ApplyCall(call, st) ==
    IF call[1] = "mulligan"
    THEN { out.state : out \in mulligan(st, call[2][1]) }
    ELSE { sideboard_swap(st, call[2][1], call[2][2]).state }

RECURSIVE SerialFrom(_, _)
SerialFrom(sts, calls) ==
    IF calls = <<>> THEN sts
    ELSE SerialFrom(UNION { ApplyCall(Head(calls), st) : st \in sts }, Tail(calls))

\* The zones the calls can leave when run whole, one after another, in any
\* order.
SerialStates(pre, calls) ==
    UNION { SerialFrom({pre}, [i \in DOMAIN calls |-> calls[f[i]]]) :
                f \in Permutations(DOMAIN calls) }

\* C14 (serialized execution): of the calls in flight together, a call that
\* has begun and not returned is the one the loop is running, so no call
\* runs a statement while another is partly applied; when all have returned
\* the zones are those of the calls run whole in some order.
C14_Serialized ==
    /\ \A t \in DOMAIN tasks : Mid(t) => running = t
    /\ \A t \in DOMAIN tasks, u \in DOMAIN tasks : (t # u /\ Mid(t)) => ~Mid(u)
    /\ (tasks # <<>> /\ \A t \in DOMAIN tasks : tasks[t][3] = "done") =>
           state \in SerialStates(last.pre, last.args)

\* A mulligan and a swap made together have both returned and both acted:
\* the hand was not empty, the sideboard gave a card.
C14_Witness ==
    /\ Len(tasks) = 2
    /\ \A t \in DOMAIN tasks : tasks[t][3] = "done"
    /\ tasks[1][1] = "sideboard_swap"
    /\ tasks[2][1] = "mulligan"
    /\ last.pre.hand # <<>>
    /\ last.pre.deck # <<>>
    /\ state.sideboard # last.pre.sideboard
    /\ Len(tasks[2][4]) = 2

====
